---- MODULE Spec2Model ----
(***************************************************************************)
(* Model of the payments engine of src/src/main.rs: the client table, the  *)
(* transaction table and process_transaction applied to a stream of        *)
(* records by process_transactions.                                        *)
(*                                                                         *)
(* A MoneyAmount (rust_decimal::Decimal, exact base-10 arithmetic) is an   *)
(* integer number of the smallest unit in use.  An Option<MoneyAmount> is  *)
(* a sequence of length 0 (None) or 1 (Some(a)).  A Result<(), Error> is a *)
(* record whose field "error" names the variant ("Ok" for Ok(())) and      *)
(* whose other fields are the variant's payload.                           *)
(***************************************************************************)
EXTENDS Integers, Sequences, FiniteSets, TLC

\* ------------------------------------------------------------------ bounds
\* the largest amount a record carries
MaxAmount == 2
\* the longest stream of records read
MaxRecords == 4

\* Two client ids (ClientId(u16)) and two transaction ids (TransactionId(u32)): a
\* record can name a transaction another client stored, and a step on one account
\* or transaction has another one to leave alone.
ClientIds == {1, 2}
TransactionIds == {1, 2}
\* the type strings the engine knows, and one it does not
TypeStrings == {"deposit", "withdrawal", "dispute", "resolve", "chargeback", "transfer"}
\* Option<MoneyAmount>: None, a negative amount, zero, and the positive amounts
Amounts == {<<>>} \cup {<<a>> : a \in (-1)..MaxAmount}

VARIABLES
    clients,        \* HashMap<ClientId, Client> of process_transactions
    transactions,   \* HashMap<TransactionId, Transaction> of process_transactions
    record,         \* the TransactionRecord of the iteration in progress
    result,         \* what process_transaction returned in the last iteration
    nrecords,       \* how many records the loop has read
    run,            \* where process_transactions is: "reading" the next row,
                    \* "processing" the record read, "returned" (Ok(clients)) or
                    \* "failed" (Err(ParsingError))
    openDispute,    \* history: per transaction id, what the accepted dispute that is
                    \* still open on it added to each account's funds
    owner,          \* history: per transaction id, the client id of the accepted
                    \* deposit or withdrawal that stored its entry (0: none)
    malformed,      \* history: the reader has yielded a row that does not parse
    clients2,       \* the client table of a second run of process_transactions,
    transactions2   \* and its transaction table (used by PairSpec only)

vars == <<clients, transactions, record, result, nrecords, run, openDispute,
          owner, malformed, clients2, transactions2>>
\* the tables of the second run
second == <<clients2, transactions2>>

\* ------------------------------------------------------------------ types
Ok == [error |-> "Ok"]
IsOk(r) == r.error = "Ok"

DefaultClient == [available_funds |-> 0, held_funds |-> 0, is_locked |-> FALSE]

total_funds(client) == client.available_funds + client.held_funds

DefaultDisputedState == "NotDisputed"

\* Faulty variant: a negative amount passes the check.
is_sign_negative_never(amount) == FALSE
is_sign_negative(amount) == amount < 0
\* Faulty variant: a zero amount passes the check.
is_zero_never(amount) == FALSE
is_zero(amount) == amount = 0

\* HashMap::insert: last write wins
MapInsert(map, key, value) ==
    [k \in (DOMAIN map) \cup {key} |-> IF k = key THEN value ELSE map[k]]

\* Faulty variant: insert(key, Client::default()) in place of entry(key).or_default().
or_default_overwrite(map, key) == MapInsert(map, key, DefaultClient)
\* HashMap::entry(key).or_default(): the map with a default client under a vacant key
or_default(map, key) ==
    IF key \in DOMAIN map THEN map ELSE MapInsert(map, key, DefaultClient)

\* TryFrom<TransactionRecord> for Transaction
try_from(transaction_record) ==
    IF Len(transaction_record.amount) = 0
    THEN [result |-> [error |-> "TransactionWithoutAmount"]]
    ELSE [result |-> Ok,
          transaction |-> [amount |-> transaction_record.amount[1],
                           disputed |-> DefaultDisputedState]]

\* ------------------------------------------------------------------ handlers
\* Each handler returns its Result and the values it holds by &mut as it leaves them.

\* Faulty variant: the deposit credits held_funds.
process_deposit_to_held(client, amount) ==
    IF Len(amount) = 0
    THEN [result |-> [error |-> "DepositWithoutAmount"], client |-> client]
    ELSE [result |-> Ok,
          client |-> [client EXCEPT !.held_funds = @ + amount[1]]]
process_deposit(client, amount) ==
    IF Len(amount) = 0
    THEN [result |-> [error |-> "DepositWithoutAmount"], client |-> client]
    ELSE [result |-> Ok,
          client |-> [client EXCEPT !.available_funds = @ + amount[1]]]

NotEnoughAvailableFunds(client_id, amount, available) ==
    [error |-> "NotEnoughAvailableFunds", client_id |-> client_id,
     needed |-> amount, available |-> available]

\* Faulty variant: "<=" in place of "<" in the funds check.
process_withdrawal_strict(client, client_id, amount) ==
    IF Len(amount) = 0
    THEN [result |-> [error |-> "WithdrawalWithoutAmount"], client |-> client]
    ELSE IF client.available_funds <= amount[1]
    THEN [result |-> NotEnoughAvailableFunds(client_id, amount[1], client.available_funds),
          client |-> client]
    ELSE [result |-> Ok,
          client |-> [client EXCEPT !.available_funds = @ - amount[1]]]
\* Faulty variant: the debit is made before the funds check.
process_withdrawal_debit_first(client, client_id, amount) ==
    IF Len(amount) = 0
    THEN [result |-> [error |-> "WithdrawalWithoutAmount"], client |-> client]
    ELSE IF client.available_funds < amount[1]
    THEN [result |-> NotEnoughAvailableFunds(client_id, amount[1], client.available_funds),
          client |-> [client EXCEPT !.available_funds = @ - amount[1]]]
    ELSE [result |-> Ok,
          client |-> [client EXCEPT !.available_funds = @ - amount[1]]]
process_withdrawal(client, client_id, amount) ==
    IF Len(amount) = 0
    THEN [result |-> [error |-> "WithdrawalWithoutAmount"], client |-> client]
    ELSE IF client.available_funds < amount[1]
    THEN [result |-> NotEnoughAvailableFunds(client_id, amount[1], client.available_funds),
          client |-> client]
    ELSE [result |-> Ok,
          client |-> [client EXCEPT !.available_funds = @ - amount[1]]]

\* Faulty variant: no check of the target's dispute state.
process_dispute_unguarded(client, transaction_id, txs) ==
    IF transaction_id \notin DOMAIN txs
    THEN [result |-> [error |-> "UnknownTransactionId", id |-> transaction_id],
          client |-> client, transactions |-> txs]
    ELSE [result |-> Ok,
          client |-> [client EXCEPT
                        !.held_funds = @ + txs[transaction_id].amount,
                        !.available_funds = @ - txs[transaction_id].amount],
          transactions |-> [txs EXCEPT ![transaction_id].disputed = "Disputed"]]
\* Faulty variant: the amount is held but not taken from available_funds.
process_dispute_hold_only(client, transaction_id, txs) ==
    IF transaction_id \notin DOMAIN txs
    THEN [result |-> [error |-> "UnknownTransactionId", id |-> transaction_id],
          client |-> client, transactions |-> txs]
    ELSE IF txs[transaction_id].disputed # "NotDisputed"
    THEN [result |-> [error |-> "TransactionAlreadyUnderDispute", id |-> transaction_id],
          client |-> client, transactions |-> txs]
    ELSE [result |-> Ok,
          client |-> [client EXCEPT
                        !.held_funds = @ + txs[transaction_id].amount],
          transactions |-> [txs EXCEPT ![transaction_id].disputed = "Disputed"]]
process_dispute(client, transaction_id, txs) ==
    IF transaction_id \notin DOMAIN txs
    THEN [result |-> [error |-> "UnknownTransactionId", id |-> transaction_id],
          client |-> client, transactions |-> txs]
    ELSE IF txs[transaction_id].disputed # "NotDisputed"
    THEN [result |-> [error |-> "TransactionAlreadyUnderDispute", id |-> transaction_id],
          client |-> client, transactions |-> txs]
    ELSE [result |-> Ok,
          client |-> [client EXCEPT
                        !.held_funds = @ + txs[transaction_id].amount,
                        !.available_funds = @ - txs[transaction_id].amount],
          transactions |-> [txs EXCEPT ![transaction_id].disputed = "Disputed"]]

process_resolve(client, transaction_id, txs) ==
    IF transaction_id \notin DOMAIN txs
    THEN [result |-> [error |-> "UnknownTransactionId", id |-> transaction_id],
          client |-> client, transactions |-> txs]
    ELSE IF txs[transaction_id].disputed # "Disputed"
    THEN [result |-> [error |-> "TransactionNotUnderDispute", id |-> transaction_id],
          client |-> client, transactions |-> txs]
    ELSE [result |-> Ok,
          client |-> [client EXCEPT
                        !.held_funds = @ - txs[transaction_id].amount,
                        !.available_funds = @ + txs[transaction_id].amount],
          transactions |-> [txs EXCEPT ![transaction_id].disputed = "Resolved"]]

\* Faulty variant: the chargeback credits available_funds as a resolve does.
process_chargeback_refund(client, transaction_id, txs) ==
    IF transaction_id \notin DOMAIN txs
    THEN [result |-> [error |-> "UnknownTransactionId", id |-> transaction_id],
          client |-> client, transactions |-> txs]
    ELSE IF txs[transaction_id].disputed # "Disputed"
    THEN [result |-> [error |-> "TransactionNotUnderDispute", id |-> transaction_id],
          client |-> client, transactions |-> txs]
    ELSE [result |-> Ok,
          client |-> [client EXCEPT
                        !.held_funds = @ - txs[transaction_id].amount,
                        !.available_funds = @ + txs[transaction_id].amount,
                        !.is_locked = TRUE],
          transactions |-> [txs EXCEPT ![transaction_id].disputed = "ChargedBack"]]
\* Faulty variant: the account is locked before the checks.
process_chargeback_lock_first(client, transaction_id, txs) ==
    IF transaction_id \notin DOMAIN txs
    THEN [result |-> [error |-> "UnknownTransactionId", id |-> transaction_id],
          client |-> [client EXCEPT !.is_locked = TRUE], transactions |-> txs]
    ELSE IF txs[transaction_id].disputed # "Disputed"
    THEN [result |-> [error |-> "TransactionNotUnderDispute", id |-> transaction_id],
          client |-> [client EXCEPT !.is_locked = TRUE], transactions |-> txs]
    ELSE [result |-> Ok,
          client |-> [client EXCEPT
                        !.held_funds = @ - txs[transaction_id].amount,
                        !.is_locked = TRUE],
          transactions |-> [txs EXCEPT ![transaction_id].disputed = "ChargedBack"]]
process_chargeback(client, transaction_id, txs) ==
    IF transaction_id \notin DOMAIN txs
    THEN [result |-> [error |-> "UnknownTransactionId", id |-> transaction_id],
          client |-> client, transactions |-> txs]
    ELSE IF txs[transaction_id].disputed # "Disputed"
    THEN [result |-> [error |-> "TransactionNotUnderDispute", id |-> transaction_id],
          client |-> client, transactions |-> txs]
    ELSE [result |-> Ok,
          client |-> [client EXCEPT
                        !.held_funds = @ - txs[transaction_id].amount,
                        !.is_locked = TRUE],
          transactions |-> [txs EXCEPT ![transaction_id].disputed = "ChargedBack"]]

\* Faulty variant: the lock is never looked at.
RefuseLocked_never(client) == FALSE
\* "if client.is_locked" of process_transaction
RefuseLocked(client) == client.is_locked

\* Faulty variant: the record is stored whether or not the handler accepted it.
StoreIfOk_always(rec, handled, txs, cs) ==
    LET converted == try_from(rec)
    IN  [result |-> IF IsOk(handled.result) THEN converted.result ELSE handled.result,
         transactions |-> IF IsOk(converted.result)
                          THEN MapInsert(txs, rec.id, converted.transaction)
                          ELSE txs,
         clients |-> [cs EXCEPT ![rec.client_id] = handled.client]]
\* One arm of the match for a deposit or a withdrawal: the handler, then, only when
\* it returned Ok, the insert of record.try_into()?.
StoreIfOk(rec, handled, txs, cs) ==
    IF ~IsOk(handled.result)
    THEN [result |-> handled.result, transactions |-> txs,
          clients |-> [cs EXCEPT ![rec.client_id] = handled.client]]
    ELSE LET converted == try_from(rec)
         IN  IF ~IsOk(converted.result)
             THEN [result |-> converted.result, transactions |-> txs,
                   clients |-> [cs EXCEPT ![rec.client_id] = handled.client]]
             ELSE [result |-> Ok,
                   transactions |-> MapInsert(txs, rec.id, converted.transaction),
                   clients |-> [cs EXCEPT ![rec.client_id] = handled.client]]

\* Faulty variant: the record is stored as if it were a transaction of its own.
Applied_and_stored(rec, handled, cs) ==
    [result |-> handled.result,
     transactions |-> IF rec.id \in DOMAIN handled.transactions
                      THEN handled.transactions
                      ELSE MapInsert(handled.transactions, rec.id,
                                     [amount |-> 0, disputed |-> DefaultDisputedState]),
     clients |-> [cs EXCEPT ![rec.client_id] = handled.client]]
\* One arm of the match for a dispute, a resolve or a chargeback.
Applied(rec, handled, cs) ==
    [result |-> handled.result, transactions |-> handled.transactions,
     clients |-> [cs EXCEPT ![rec.client_id] = handled.client]]

process_transaction(rec, txs, cs) ==
    IF Len(rec.amount) = 1 /\ (is_sign_negative(rec.amount[1]) \/ is_zero(rec.amount[1]))
    THEN [result |-> [error |-> "InvalidAmount", amount |-> rec.amount[1]],
          transactions |-> txs, clients |-> cs]
    ELSE
    LET withClient == or_default(cs, rec.client_id)
        client == withClient[rec.client_id]
    IN  IF RefuseLocked(client)
        THEN [result |-> [error |-> "ClientLocked", client_id |-> rec.client_id],
              transactions |-> txs, clients |-> withClient]
        ELSE CASE rec.type_string = "deposit" ->
                    StoreIfOk(rec, process_deposit(client, rec.amount), txs, withClient)
               [] rec.type_string = "withdrawal" ->
                    StoreIfOk(rec, process_withdrawal(client, rec.client_id, rec.amount),
                              txs, withClient)
               [] rec.type_string = "dispute" ->
                    Applied(rec, process_dispute(client, rec.id, txs), withClient)
               [] rec.type_string = "resolve" ->
                    Applied(rec, process_resolve(client, rec.id, txs), withClient)
               [] rec.type_string = "chargeback" ->
                    Applied(rec, process_chargeback(client, rec.id, txs), withClient)
               [] OTHER ->
                    [result |-> [error |-> "UnknownTransactionType",
                                 type_string |-> rec.type_string],
                     transactions |-> txs, clients |-> withClient]

\* ------------------------------------------------------------------ history
\* The account under client_id as entry().or_default() sees it.
Account(cs, client_id) == IF client_id \in DOMAIN cs THEN cs[client_id] ELSE DefaultClient

NoEffect == [c \in ClientIds |-> [available_funds |-> 0, held_funds |-> 0]]

\* What a step added to the funds of every account.
Effect(before, after) ==
    [c \in ClientIds |->
        [available_funds |-> Account(after, c).available_funds
                                - Account(before, c).available_funds,
         held_funds |-> Account(after, c).held_funds - Account(before, c).held_funds]]

NextOpenDispute(rec, out) ==
    [t \in TransactionIds |->
        IF t \in DOMAIN out.transactions /\ out.transactions[t].disputed = "Disputed"
        THEN IF IsOk(out.result) /\ rec.type_string = "dispute" /\ rec.id = t
             THEN Effect(clients, out.clients)
             ELSE openDispute[t]
        ELSE NoEffect]

\* The client whose accepted deposit or withdrawal stored the entry of each id.
NextOwner(rec, out) ==
    [t \in TransactionIds |->
        IF /\ IsOk(out.result)
           /\ rec.type_string \in {"deposit", "withdrawal"}
           /\ rec.id = t
        THEN rec.client_id
        ELSE owner[t]]

\* ------------------------------------------------------------------ behaviour
\* No record is held between two iterations: process_transaction takes it by value.
NoRecord == [type_string |-> "", client_id |-> 0, id |-> 0, amount |-> <<>>]
\* No Result exists while the record of an iteration is not processed yet.
NoResult == [error |-> "Pending"]

Records ==
    [type_string : TypeStrings, client_id : ClientIds, id : TransactionIds,
     amount : Amounts]

Init ==
    /\ clients = <<>>
    /\ transactions = <<>>
    /\ record = NoRecord
    /\ result = NoResult
    /\ nrecords = 0
    /\ run = "reading"
    /\ openDispute = [t \in TransactionIds |-> NoEffect]
    /\ owner = [t \in TransactionIds |-> 0]
    /\ malformed = FALSE
    /\ clients2 = <<>>
    /\ transactions2 = <<>>

\* reader.deserialize() yields the next row, and it parses into a TransactionRecord.
ReadRecord ==
    /\ run = "reading"
    /\ nrecords < MaxRecords
    /\ \E rec \in Records : record' = rec
    /\ result' = NoResult
    /\ nrecords' = nrecords + 1
    /\ run' = "processing"
    /\ UNCHANGED <<clients, transactions, openDispute, owner, malformed, second>>

\* Faulty variant: "process_transaction(..)?": an Err ends the run.
Process_or_fail ==
    /\ run = "processing"
    /\ LET out == process_transaction(record, transactions, clients)
       IN  /\ clients' = out.clients
           /\ transactions' = out.transactions
           /\ result' = out.result
           /\ openDispute' = NextOpenDispute(record, out)
           /\ owner' = NextOwner(record, out)
           /\ run' = IF IsOk(out.result) THEN "reading" ELSE "failed"
    /\ record' = NoRecord
    /\ UNCHANGED <<nrecords, malformed, second>>
\* The call of process_transaction on the record read, and the loop's "if let Err":
\* the error is printed and the loop goes on.
Process ==
    /\ run = "processing"
    /\ LET out == process_transaction(record, transactions, clients)
       IN  /\ clients' = out.clients
           /\ transactions' = out.transactions
           /\ result' = out.result
           /\ openDispute' = NextOpenDispute(record, out)
           /\ owner' = NextOwner(record, out)
    /\ record' = NoRecord
    /\ run' = "reading"
    /\ UNCHANGED <<nrecords, malformed, second>>

Deposit == record.type_string = "deposit" /\ Process
Withdrawal == record.type_string = "withdrawal" /\ Process
Dispute == record.type_string = "dispute" /\ Process
Resolve == record.type_string = "resolve" /\ Process
Chargeback == record.type_string = "chargeback" /\ Process
UnknownType ==
    /\ record.type_string \notin {"deposit", "withdrawal", "dispute", "resolve", "chargeback"}
    /\ Process

\* Faulty variant: a row that does not deserialize is skipped and the loop goes on.
ParsingError_skipped ==
    /\ run = "reading"
    /\ malformed' = TRUE
    /\ run' = "reading"
    /\ UNCHANGED <<clients, transactions, record, result, nrecords, openDispute, owner,
                   second>>
\* The reader yields a row that does not deserialize: "?" returns Err(ParsingError).
ParsingError ==
    /\ run = "reading"
    /\ malformed' = TRUE
    /\ run' = "failed"
    /\ UNCHANGED <<clients, transactions, record, result, nrecords, openDispute, owner,
                   second>>

\* The reader is exhausted: Ok(clients).
EndOfInput ==
    /\ run = "reading"
    /\ run' = "returned"
    /\ UNCHANGED <<clients, transactions, record, result, nrecords, openDispute, owner,
                   malformed, second>>

Next ==
    \/ ReadRecord
    \/ Deposit
    \/ Withdrawal
    \/ Dispute
    \/ Resolve
    \/ Chargeback
    \/ UnknownType
    \/ ParsingError
    \/ EndOfInput

Spec == Init /\ [][Next]_vars

\* ------------------------------------------------------------------ two runs
\* Two runs of the loop of process_transactions, each on its own tables, fed two
\* streams that hold the same records of one client, in the same order, and any
\* records of the other clients in between.  nrecords counts the records fed.
ObservedClient == CHOOSE c \in ClientIds : TRUE

\* Both streams hold a record of the observed client next.
PairBoth ==
    /\ run = "reading"
    /\ nrecords < MaxRecords
    /\ \E rec \in Records :
          /\ rec.client_id = ObservedClient
          /\ LET out == process_transaction(rec, transactions, clients)
             IN  clients' = out.clients /\ transactions' = out.transactions
          /\ LET out == process_transaction(rec, transactions2, clients2)
             IN  clients2' = out.clients /\ transactions2' = out.transactions
    /\ nrecords' = nrecords + 1
    /\ UNCHANGED <<record, result, run, openDispute, owner, malformed>>

\* The first stream holds a record of another client next.
PairFirst ==
    /\ run = "reading"
    /\ nrecords < MaxRecords
    /\ \E rec \in Records :
          /\ rec.client_id # ObservedClient
          /\ LET out == process_transaction(rec, transactions, clients)
             IN  clients' = out.clients /\ transactions' = out.transactions
    /\ nrecords' = nrecords + 1
    /\ UNCHANGED <<record, result, run, openDispute, owner, malformed, second>>

\* The second stream holds a record of another client next.
PairSecond ==
    /\ run = "reading"
    /\ nrecords < MaxRecords
    /\ \E rec \in Records :
          /\ rec.client_id # ObservedClient
          /\ LET out == process_transaction(rec, transactions2, clients2)
             IN  clients2' = out.clients /\ transactions2' = out.transactions
    /\ nrecords' = nrecords + 1
    /\ UNCHANGED <<clients, transactions, record, result, run, openDispute, owner,
                   malformed>>

\* Both streams are exhausted: each run returns Ok(clients).
PairEndOfInput ==
    /\ run = "reading"
    /\ run' = "returned"
    /\ UNCHANGED <<clients, transactions, record, result, nrecords, openDispute, owner,
                   malformed, second>>

PairNext ==
    \/ PairBoth
    \/ PairFirst
    \/ PairSecond
    \/ PairEndOfInput

PairSpec == Init /\ [][PairNext]_vars

\* ------------------------------------------------------------------ claims
\* A step from a state where run = "processing" is the call of process_transaction on
\* record: unprimed variables are the ledger before the record, primed ones after it.
Processing == run = "processing"
Rejected(r) == r.error \notin {"Ok", "Pending"}
DisputeFamily == {"dispute", "resolve", "chargeback"}

\* C1: while a client's account is locked, every record carrying that client's id,
\* whatever its type, transaction id or amount, is rejected, and the account's
\* available, held and locked values after the record equal those before it.
C1_LockedAccountRejectsEveryRecord ==
    [][(/\ Processing
        /\ record.client_id \in DOMAIN clients
        /\ clients[record.client_id].is_locked)
       => /\ Rejected(result')
          /\ record.client_id \in DOMAIN clients'
          /\ clients'[record.client_id] = clients[record.client_id]]_vars

\* A record for a locked client has been rejected with ClientLocked.
C1_Witness ==
    /\ run = "reading"
    /\ result.error = "ClientLocked"
    /\ clients[result.client_id].is_locked

\* C2 as claimed: the dispute state stored under a transaction id changes only by an
\* accepted dispute (NotDisputed -> Disputed), resolve (Disputed -> Resolved) or
\* chargeback (Disputed -> ChargedBack) naming it, and a dispute, resolve or
\* chargeback naming a Resolved or ChargedBack transaction is rejected and leaves
\* its dispute state unchanged.
DisputeStep(t, type_string, from, to) ==
    /\ Processing
    /\ IsOk(result')
    /\ record.id = t
    /\ record.type_string = type_string
    /\ transactions[t].disputed = from
    /\ transactions'[t].disputed = to

TerminalStaysTerminal(t) ==
    (/\ Processing
     /\ record.id = t
     /\ record.type_string \in DisputeFamily
     /\ transactions[t].disputed \in {"Resolved", "ChargedBack"})
    => /\ Rejected(result')
       /\ transactions'[t].disputed = transactions[t].disputed

C2_Original ==
    [][\A t \in DOMAIN transactions :
          /\ t \in DOMAIN transactions'
          /\ transactions'[t].disputed # transactions[t].disputed
             => \/ DisputeStep(t, "dispute", "NotDisputed", "Disputed")
                \/ DisputeStep(t, "resolve", "Disputed", "Resolved")
                \/ DisputeStep(t, "chargeback", "Disputed", "ChargedBack")
          /\ TerminalStaysTerminal(t)]_vars

\* An accepted deposit or withdrawal whose id is already in the table: the insert
\* replaces the entry, whatever its dispute state was, by a NotDisputed one.
Overwrite(t) ==
    /\ Processing
    /\ IsOk(result')
    /\ record.id = t
    /\ record.type_string \in {"deposit", "withdrawal"}
    /\ transactions'[t].disputed = "NotDisputed"

\* C2 (amended): the dispute state stored under a transaction id changes only along
\* NotDisputed -> Disputed (accepted dispute), Disputed -> Resolved (accepted
\* resolve), Disputed -> ChargedBack (accepted chargeback), or back to NotDisputed
\* when an accepted deposit or withdrawal reuses the id and overwrites the entry;
\* while the entry is Resolved or ChargedBack, every dispute, resolve or chargeback
\* naming it is rejected and leaves its dispute state unchanged.
C2_DisputeStateMachine ==
    [][\A t \in DOMAIN transactions :
          /\ t \in DOMAIN transactions'
          /\ transactions'[t].disputed # transactions[t].disputed
             => \/ DisputeStep(t, "dispute", "NotDisputed", "Disputed")
                \/ DisputeStep(t, "resolve", "Disputed", "Resolved")
                \/ DisputeStep(t, "chargeback", "Disputed", "ChargedBack")
                \/ Overwrite(t)
          /\ TerminalStaysTerminal(t)]_vars

\* A dispute, resolve or chargeback naming a Resolved or ChargedBack transaction
\* has been rejected.
C2_Witness ==
    /\ run = "reading"
    /\ result.error \in {"TransactionAlreadyUnderDispute", "TransactionNotUnderDispute"}
    /\ transactions[result.id].disputed \in {"Resolved", "ChargedBack"}

\* C3: a record that process_transaction rejects leaves the available, held and
\* locked values of every existing account and the amount and dispute state of
\* every stored transaction as they were before the record.
C3_RejectionMutatesNothing ==
    [][(Processing /\ Rejected(result'))
       => /\ transactions' = transactions
          /\ \A c \in DOMAIN clients :
                c \in DOMAIN clients' /\ clients'[c] = clients[c]]_vars

\* A withdrawal has been rejected on an account that holds funds, with a
\* transaction stored.
C3_Witness ==
    /\ run = "reading"
    /\ result.error = "NotEnoughAvailableFunds"
    /\ result.available > 0
    /\ clients[result.client_id].available_funds = result.available
    /\ transactions # <<>>

\* C4: an accepted chargeback on a Disputed transaction of amount a decreases held
\* of the record's account (as entry().or_default() gives it) by exactly a, leaves
\* its available unchanged, sets locked and moves the transaction to ChargedBack;
\* no other account and nothing else of the transaction table changes.
C4_ChargebackEffect ==
    [][(Processing /\ record.type_string = "chargeback" /\ IsOk(result'))
       => LET c == record.client_id
              t == record.id
              before == Account(clients, c)
          IN  /\ t \in DOMAIN transactions
              /\ transactions[t].disputed = "Disputed"
              /\ DOMAIN clients' = DOMAIN clients \cup {c}
              /\ clients'[c] =
                    [available_funds |-> before.available_funds,
                     held_funds |-> before.held_funds - transactions[t].amount,
                     is_locked |-> TRUE]
              /\ \A d \in DOMAIN clients \ {c} : clients'[d] = clients[d]
              /\ transactions' = [transactions EXCEPT ![t].disputed = "ChargedBack"]]_vars

\* The third record of the stream was an accepted chargeback (a transaction can be
\* ChargedBack after three records only if they were its deposit, its dispute and
\* its chargeback).
C4_Witness ==
    /\ run = "reading"
    /\ nrecords = 3
    /\ IsOk(result)
    /\ \E t \in DOMAIN transactions : transactions[t].disputed = "ChargedBack"
    /\ \E c \in DOMAIN clients : clients[c].is_locked

\* C5: an accepted dispute on a NotDisputed transaction of amount a increases held
\* by a and decreases available by a on the record's account, so that the account's
\* total is the same before and after, also when available becomes negative.
C5_DisputeKeepsTotal ==
    [][(Processing /\ record.type_string = "dispute" /\ IsOk(result'))
       => LET c == record.client_id
              t == record.id
              before == Account(clients, c)
          IN  /\ t \in DOMAIN transactions
              /\ transactions[t].disputed = "NotDisputed"
              /\ clients'[c].held_funds = before.held_funds + transactions[t].amount
              /\ clients'[c].available_funds
                    = before.available_funds - transactions[t].amount
              /\ total_funds(clients'[c]) = total_funds(before)]_vars

\* The third record of the stream was an accepted dispute that left available
\* negative (only a dispute takes available below zero).
C5_Witness ==
    /\ run = "reading"
    /\ nrecords = 3
    /\ IsOk(result)
    /\ \E c \in DOMAIN clients :
          clients[c].available_funds < 0 /\ clients[c].held_funds > 0

\* C6 as claimed: an accepted resolve of transaction t and the accepted dispute that
\* opened the dispute it closes add, together, zero to the available and to the
\* held funds of every account.
C6_ResolveReversesDispute ==
    [][(Processing /\ record.type_string = "resolve" /\ IsOk(result'))
       => \A c \in ClientIds :
             /\ Effect(clients, clients')[c].available_funds
                   + openDispute[record.id][c].available_funds = 0
             /\ Effect(clients, clients')[c].held_funds
                   + openDispute[record.id][c].held_funds = 0]_vars

\* C7: an accepted deposit of amount a increases the account's total by exactly a,
\* an accepted withdrawal of amount a decreases it by exactly a, and each changes
\* only available: held and locked are as before.
C7_DepositWithdrawalEffect ==
    [][(/\ Processing
        /\ record.type_string \in {"deposit", "withdrawal"}
        /\ IsOk(result'))
       => LET c == record.client_id
              before == Account(clients, c)
              sign == IF record.type_string = "deposit" THEN 1 ELSE -1
          IN  /\ Len(record.amount) = 1
              /\ total_funds(clients'[c])
                    = total_funds(before) + sign * record.amount[1]
              /\ clients'[c] =
                    [before EXCEPT
                        !.available_funds = @ + sign * record.amount[1]]]_vars

\* The stream was a deposit of 2 and then a withdrawal of 1 by the same client, both
\* accepted.
C7_Witness ==
    /\ run = "reading"
    /\ nrecords = 2
    /\ IsOk(result)
    /\ \E c \in ClientIds :
          /\ DOMAIN clients = {c}
          /\ clients[c] = [available_funds |-> 1, held_funds |-> 0, is_locked |-> FALSE]
    /\ {transactions[t].amount : t \in DOMAIN transactions} = {1, 2}

\* C8: a withdrawal with a positive amount for an unlocked client is accepted exactly
\* when available >= amount, and then leaves available at or above zero; otherwise it
\* is rejected with NotEnoughAvailableFunds (the amount asked and the available
\* balance), the account is unchanged and nothing is stored in the transaction table.
C8_WithdrawalNeedsFunds ==
    [][(/\ Processing
        /\ record.type_string = "withdrawal"
        /\ Len(record.amount) = 1
        /\ record.amount[1] > 0
        /\ ~Account(clients, record.client_id).is_locked)
       => LET c == record.client_id
              before == Account(clients, c)
          IN  IF before.available_funds >= record.amount[1]
              THEN /\ IsOk(result')
                   /\ clients'[c].available_funds >= 0
                   /\ record.id \in DOMAIN transactions'
              ELSE /\ result' = NotEnoughAvailableFunds(c, record.amount[1],
                                                        before.available_funds)
                   /\ clients'[c] = before
                   /\ transactions' = transactions]_vars

\* A withdrawal of everything available has been accepted: after a deposit and a
\* withdrawal the client holds exactly zero and both transactions are stored.
C8_Witness ==
    /\ run = "reading"
    /\ nrecords = 2
    /\ IsOk(result)
    /\ DOMAIN transactions = TransactionIds
    /\ \E c \in ClientIds : DOMAIN clients = {c} /\ clients[c].available_funds = 0

\* C9 as claimed: a rejected record leaves the whole ledger state, the set of
\* accounts included, identical, and replayed in the state it leaves it is rejected
\* for the same reason.
C9_Original ==
    [][(Processing /\ Rejected(result'))
       => /\ clients' = clients
          /\ transactions' = transactions
          /\ process_transaction(record, transactions', clients').result = result']_vars

\* C9 (amended): a rejected record leaves the transaction table and every existing
\* account unchanged; the one change it can make is to create the zero-balance,
\* unlocked account of its own client id when that account does not exist; replayed
\* in the state it leaves, it is rejected for the same reason and changes nothing
\* at all, and so for every further replay.
C9_RejectionIdempotent ==
    [][(Processing /\ Rejected(result'))
       => LET replay == process_transaction(record, transactions', clients')
          IN  /\ transactions' = transactions
              /\ \A c \in DOMAIN clients :
                    c \in DOMAIN clients' /\ clients'[c] = clients[c]
              /\ DOMAIN clients' \subseteq DOMAIN clients \cup {record.client_id}
              /\ \A c \in DOMAIN clients' \ DOMAIN clients : clients'[c] = DefaultClient
              /\ replay.result = result'
              /\ replay.clients = clients'
              /\ replay.transactions = transactions']_vars

\* The first record of the stream was rejected and created its client's account.
C9_Witness ==
    /\ run = "reading"
    /\ nrecords = 1
    /\ Rejected(result)
    /\ \E c \in ClientIds : DOMAIN clients = {c} /\ clients[c] = DefaultClient

\* C10: once an account's locked flag is true it is true in every later state,
\* whatever records follow, for that client or any other.
C10_LockedForever ==
    [][\A c \in DOMAIN clients :
          clients[c].is_locked => c \in DOMAIN clients' /\ clients'[c].is_locked]_vars

\* A record has been processed after an account was locked (locking takes three
\* records), and the account is still locked.
C10_Witness ==
    /\ run = "reading"
    /\ nrecords = 4
    /\ \E c \in DOMAIN clients : clients[c].is_locked

\* C11 as claimed: every record, a rejected one included, leaves an account under
\* its client id, a zero-balance unlocked one when the record is rejected and the
\* account is new; no account is ever removed.
C11_Original ==
    [][/\ DOMAIN clients \subseteq DOMAIN clients'
       /\ Processing
          => /\ record.client_id \in DOMAIN clients'
             /\ (record.client_id \notin DOMAIN clients /\ Rejected(result'))
                => clients'[record.client_id]
                      = [available_funds |-> 0, held_funds |-> 0, is_locked |-> FALSE]]_vars

\* The account a new client id gets from an accepted record: the zero-balance,
\* unlocked account with the record applied to it.
FirstAccount(rec, txs) ==
    CASE rec.type_string = "deposit" ->
            [available_funds |-> rec.amount[1], held_funds |-> 0, is_locked |-> FALSE]
      [] rec.type_string = "dispute" ->
            [available_funds |-> 0 - txs[rec.id].amount,
             held_funds |-> txs[rec.id].amount, is_locked |-> FALSE]
      [] rec.type_string = "resolve" ->
            [available_funds |-> txs[rec.id].amount,
             held_funds |-> 0 - txs[rec.id].amount, is_locked |-> FALSE]
      [] rec.type_string = "chargeback" ->
            [available_funds |-> 0,
             held_funds |-> 0 - txs[rec.id].amount, is_locked |-> TRUE]

\* C11 (amended): an account is created, with available = 0, held = 0 and locked =
\* false, the first time its client id is referenced by a record that does not carry
\* a negative or zero amount, including a record that is then rejected for another
\* reason; a record carrying a negative or zero amount is rejected with InvalidAmount
\* before the account is looked up and creates none; once created an account is
\* never removed.
C11_AccountLifecycle ==
    [][/\ DOMAIN clients \subseteq DOMAIN clients'
       /\ (Processing /\ record.client_id \notin DOMAIN clients)
          => IF Len(record.amount) = 1 /\ record.amount[1] <= 0
             THEN /\ result'.error = "InvalidAmount"
                  /\ clients' = clients
             ELSE /\ DOMAIN clients' = DOMAIN clients \cup {record.client_id}
                  /\ clients'[record.client_id] =
                        IF Rejected(result')
                        THEN [available_funds |-> 0, held_funds |-> 0,
                              is_locked |-> FALSE]
                        ELSE FirstAccount(record, transactions)]_vars

\* Two records have been read, each rejected, and each created the account of its
\* client id.
C11_Witness ==
    /\ run = "reading"
    /\ nrecords = 2
    /\ Rejected(result)
    /\ result.error # "InvalidAmount"
    /\ DOMAIN clients = ClientIds
    /\ \A c \in ClientIds : clients[c] = DefaultClient

\* C12 as claimed: once a transaction is stored under an id, its amount never
\* changes, and its dispute state is changed only by an accepted dispute, resolve or
\* chargeback naming the id.
C12_Original ==
    [][\A t \in DOMAIN transactions :
          /\ t \in DOMAIN transactions'
          /\ transactions'[t].amount = transactions[t].amount
          /\ transactions'[t].disputed # transactions[t].disputed
             => /\ Processing
                /\ IsOk(result')
                /\ record.id = t
                /\ record.type_string \in DisputeFamily]_vars

\* C12 (amended): once a transaction is stored under an id, an entry stays under
\* that id; a rejected record changes nothing of it; an accepted dispute, resolve or
\* chargeback naming the id changes its dispute state only; an accepted deposit or
\* withdrawal reusing the id replaces it by the new record's amount, NotDisputed;
\* no other record changes it.
C12_StoredTransaction ==
    [][\A t \in DOMAIN transactions :
          /\ t \in DOMAIN transactions'
          /\ transactions'[t] # transactions[t]
             => /\ Processing
                /\ IsOk(result')
                /\ record.id = t
                /\ \/ /\ record.type_string \in DisputeFamily
                      /\ transactions'[t].amount = transactions[t].amount
                   \/ /\ record.type_string \in {"deposit", "withdrawal"}
                      /\ transactions'[t] =
                            [amount |-> record.amount[1], disputed |-> "NotDisputed"]]_vars

\* A deposit of 1 and then a deposit of 2 under the same transaction id have been
\* accepted: the one entry of the table holds the amount 2.
C12_Witness ==
    /\ run = "reading"
    /\ nrecords = 2
    /\ IsOk(result)
    /\ \E c \in ClientIds : DOMAIN clients = {c} /\ clients[c].available_funds = 3
    /\ \E t \in TransactionIds :
          /\ DOMAIN transactions = {t}
          /\ transactions[t] = [amount |-> 2, disputed |-> "NotDisputed"]

\* C13: two streams with the same records of a client, in the same order, and
\* arbitrary records of other clients in between give that client the same final
\* account (checked under PairSpec, when both runs have returned).
C13_SameAccountFromSameRecords ==
    run = "returned"
    => /\ (ObservedClient \in DOMAIN clients) <=> (ObservedClient \in DOMAIN clients2)
       /\ Account(clients, ObservedClient) = Account(clients2, ObservedClient)

\* C14: a record carrying a negative or zero amount is rejected with InvalidAmount,
\* whatever its type and also when its client is locked; otherwise a record of a
\* locked client is rejected with ClientLocked, whatever its type, transaction id or
\* missing amount; only a record passing both checks is accepted or rejected for a
\* reason of its type.
C14_RejectionPrecedence ==
    [][Processing
       => IF Len(record.amount) = 1 /\ record.amount[1] <= 0
          THEN result' = [error |-> "InvalidAmount", amount |-> record.amount[1]]
          ELSE IF Account(clients, record.client_id).is_locked
          THEN result' = [error |-> "ClientLocked", client_id |-> record.client_id]
          ELSE result'.error \in
                  {"Ok", "DepositWithoutAmount", "WithdrawalWithoutAmount",
                   "NotEnoughAvailableFunds", "UnknownTransactionId",
                   "TransactionAlreadyUnderDispute", "TransactionNotUnderDispute",
                   "UnknownTransactionType"}]_vars

\* The loop holds a record with a negative or zero amount whose client is locked:
\* the record of the step that C14 says ends in InvalidAmount, not ClientLocked.
\* (Once processed the record is gone, and InvalidAmount does not name the client.)
C14_Witness ==
    /\ run = "processing"
    /\ Len(record.amount) = 1
    /\ record.amount[1] <= 0
    /\ record.client_id \in DOMAIN clients
    /\ clients[record.client_id].is_locked

\* C15: the ids in the transaction table are the ids of the deposit and withdrawal
\* records accepted so far.  The table starts empty, so this is: each record adds its
\* id to the table exactly when it is an accepted deposit or withdrawal, and never
\* removes one; hence a dispute, resolve or chargeback that passes the amount and lock
\* checks and names an id that no accepted deposit or withdrawal carried is rejected
\* with UnknownTransactionId.
C15_TableHoldsAcceptedIds ==
    [][/\ DOMAIN transactions' =
             DOMAIN transactions \cup
                IF /\ Processing
                   /\ IsOk(result')
                   /\ record.type_string \in {"deposit", "withdrawal"}
                THEN {record.id}
                ELSE {}
       /\ (/\ Processing
           /\ record.type_string \in DisputeFamily
           /\ record.id \notin DOMAIN transactions
           /\ result'.error \notin {"InvalidAmount", "ClientLocked"})
          => result' = [error |-> "UnknownTransactionId", id |-> record.id]]_vars

\* With another transaction stored, a dispute, resolve or chargeback has been
\* rejected with UnknownTransactionId and its id is still not in the table.
C15_Witness ==
    /\ run = "reading"
    /\ result.error = "UnknownTransactionId"
    /\ result.id \notin DOMAIN transactions
    /\ transactions # <<>>

\* C16: a finite stream of well-shaped records is processed to its end: the loop is
\* never stuck before it has returned; each record read is applied, once, before the
\* next one is read or the run returns; a rejected record sends the loop back to
\* reading like an accepted one and never fails the run; and the run returns the
\* client table as the last record left it.
C16_StreamProcessedToTheEnd ==
    /\ [](run \in {"returned", "failed"} \/ ENABLED Next)
    /\ [][/\ (run = "reading" /\ run' = "processing")
             => /\ nrecords' = nrecords + 1
                /\ record' \in Records
                /\ clients' = clients /\ transactions' = transactions
          /\ Processing
             => /\ run' \in {"processing", "reading"}
                /\ run' = "reading"
                   => LET out == process_transaction(record, transactions, clients)
                      IN  /\ clients' = out.clients
                          /\ transactions' = out.transactions
                          /\ result' = out.result
                          /\ nrecords' = nrecords
          /\ run' = "returned"
             => /\ run \in {"reading", "returned"}
                /\ clients' = clients]_vars

\* The run has returned after two records: the first was rejected (it left a
\* zero-balance account) and the second, a deposit of another client, was applied.
C16_Witness ==
    /\ run = "returned"
    /\ nrecords = 2
    /\ IsOk(result)
    /\ \E c, d \in ClientIds :
          /\ DOMAIN clients = {c, d}
          /\ clients[c] = DefaultClient
          /\ clients[d].available_funds > 0

\* C17: once the reader has yielded a row that does not parse, the run has failed:
\* it never returns a client table, and no record is read or applied afterwards
\* (the tables and the count of records read stay as the earlier records left them).
C17_MalformedRowIsFatal ==
    /\ [](malformed => run = "failed")
    /\ [][malformed' => /\ run' = "failed"
                        /\ clients' = clients
                        /\ transactions' = transactions
                        /\ nrecords' = nrecords]_vars

\* The run failed on a malformed row after two records had been read, of which an
\* accepted deposit left funds in an account: that account is not returned.
C17_Witness ==
    /\ run = "failed"
    /\ malformed
    /\ nrecords = 2
    /\ \E c \in DOMAIN clients : clients[c].available_funds > 0

\* C18: a dispute, resolve or chargeback record whose client id differs from the
\* client whose accepted deposit or withdrawal stored the target transaction changes
\* no account's available, held or locked value.
C18_ForeignDisputeChangesNothing ==
    [][(/\ Processing
        /\ record.type_string \in DisputeFamily
        /\ record.id \in DOMAIN transactions
        /\ owner[record.id] # record.client_id)
       => \A c \in ClientIds : Account(clients', c) = Account(clients, c)]_vars

\* The sum of f over the finite set S.
RECURSIVE SumOver(_, _)
SumOver(S, f) ==
    IF S = {} THEN 0
    ELSE LET x == CHOOSE y \in S : TRUE
         IN  f[x] + SumOver(S \ {x}, f)

HeldSum == SumOver(DOMAIN clients, [c \in DOMAIN clients |-> clients[c].held_funds])

DisputedSum ==
    LET disputed == {t \in DOMAIN transactions : transactions[t].disputed = "Disputed"}
    IN  SumOver(disputed, [t \in disputed |-> transactions[t].amount])

\* C19: in every reachable state the held funds of all accounts add up to the
\* amounts of the stored transactions whose dispute state is Disputed.
C19_HeldMatchesDisputed == HeldSum = DisputedSum

\* C20: in every reachable state no account has negative held funds.
C20_HeldNeverNegative == \A c \in DOMAIN clients : clients[c].held_funds >= 0

====
